---- MODULE Spec2Model ----
(***************************************************************************)
(* The login endpoint of FKGoRestfulFramework: POST /v1/login, served by   *)
(* loginHandler (src/src/local/controller/loginController.go) on a         *)
(* database handle whose QueryLogFunc is logDBQuery                        *)
(* (src/cmd/server/main.go).                                               *)
(*                                                                         *)
(* A request goes through three steps of the handler: Read (decode the     *)
(* body), Query (one SELECT, the query-log callback, the error check) and  *)
(* Respond (marshal and write).  Requests are served concurrently by the   *)
(* HTTP server, so the steps of different requests interleave.             *)
(***************************************************************************)
EXTENDS Integers, Sequences, FiniteSets, TLC

(***************************************************************************)
(* Bounds.                                                                 *)
(***************************************************************************)
\* number of rows the loguser table may hold (ids 1..MaxRows)
MaxRows == 2
\* number of requests in flight in the concurrent specification
NumReq == 2

(***************************************************************************)
(* Value domains.                                                          *)
(***************************************************************************)
\* values of the text columns logname and logpassword; the schema does not
\* forbid the empty string
LogNames == {"", "alice"}
LogPasswords == {"", "secret"}
Departments == {"eng", "ops"}
Purviews == {"admin"}

\* values a client may send in the two named fields of the body
SentNames == {"", "alice"}
SentPasswords == {"", "secret", "wrong"}

FieldNames == {"loginname", "password"}

\* error values
NoErr == "nil"
DecodeError == "decode error"
ExecError == "query execution error"
ScanError == "row scan error"

\* the value of a request slot that holds nothing yet
None == "none"

(***************************************************************************)
(* The user store: table loguser.  id is the primary key.                  *)
(***************************************************************************)
Columns ==
    [department : Departments, purview : Purviews,
     logname : LogNames, logpassword : LogPasswords]

UserRecord(i, c) ==
    [id |-> i, department |-> c.department, purview |-> c.purview,
     logname |-> c.logname, logpassword |-> c.logpassword]

\* every table of at most MaxRows rows with distinct ids
Stores ==
    UNION {{{UserRecord(i, f[i]) : i \in K} : f \in [K -> Columns]} :
              K \in SUBSET (1..MaxRows)}

\* the stores of the concurrent specification: the empty table, the table
\* of the documented scenario, and a table with a duplicated login
ConcStores ==
    {S \in Stores : \A u \in S : u.logname = "alice" /\ u.logpassword = "secret"
                                  /\ (u.id = 1 => u.department = "eng")}

(***************************************************************************)
(* Request bodies.  A body is either not JSON at all, or a JSON object     *)
(* holding any subset of the named fields (and possibly a field the        *)
(* handler does not know).                                                 *)
(***************************************************************************)
Malformed == [kind |-> "malformed"]

JsonBody(fields) == [kind |-> "json", fields |-> fields]

FieldValues(k) ==
    IF k = "loginname" THEN SentNames
    ELSE IF k = "password" THEN SentPasswords
    ELSE {"x"}

ObjectsOver(keys) ==
    {f \in [keys -> SentNames \cup SentPasswords \cup {"x"}] :
        \A k \in keys : f[k] \in FieldValues(k)}

Bodies ==
    {Malformed} \cup
    {JsonBody(f) : f \in UNION {ObjectsOver(K) : K \in SUBSET (FieldNames \cup {"remember"})}}

ConcBodies ==
    {Malformed} \cup
    {JsonBody(f) : f \in {g \in ObjectsOver(FieldNames) : g["loginname"] = "alice"}}

(***************************************************************************)
(* State.                                                                  *)
(***************************************************************************)
VARIABLES
    store,      \* the rows of table loguser (never written by the handler)
    body,       \* body[r]: the body of request r as the client sent it
    pc,         \* pc[r]: position of request r in the handler
    rd,         \* rd[s]: the handler's local requestData
    users,      \* users[s]: the handler's local []DB_Login
    err,        \* err[s]: the handler's local err, set by q.All
    ret,        \* ret[r]: what the handler returned to the framework
    written,    \* written[r]: the bodies handed to c.Write, in order
    queries,    \* queries[r]: database round trips made for request r
    log         \* log[r]: log entries carrying the context of request r

vars == <<store, body, pc, rd, users, err, ret, written, queries, log>>

Requests == DOMAIN pc

(***************************************************************************)
(* requestData, DB_Login, responseData, ErrorResponseData.                 *)
(***************************************************************************)
requestData == [LoginName |-> "", Password |-> ""]

DB_Login(u) ==
    [Id |-> u.id, Department |-> u.department, Purview |-> u.purview,
     Logname |-> u.logname]

responseData(user) ==
    [Id |-> user.Id, Department |-> user.Department,
     Purview |-> user.Purview, Logname |-> user.Logname]

ErrorResponseData == [Error |-> "Loginname or password not correct."]

(***************************************************************************)
(* The locals of the handler closure.  rd and users are declared inside    *)
(* the function the framework calls per request, so every invocation has   *)
(* its own: the slot of request r is r.                                    *)
(***************************************************************************)
\* a handler that kept rd and users outside the closure would give every
\* request the same slot
SharedSlot(r) == CHOOSE s \in Requests : \A t \in Requests : s <= t

Slot(r) == r

(***************************************************************************)
(* c.Read(&rd): decoding the body into requestData.  A field of the body   *)
(* named by a json tag sets the struct field, a missing field leaves the   *)
(* zero value, any other field is ignored; a body that is not JSON is an   *)
(* error.                                                                  *)
(***************************************************************************)
ReadErr(b) == IF b.kind = "json" THEN NoErr ELSE DecodeError

FieldOr(f, k, zero) == IF k \in DOMAIN f THEN f[k] ELSE zero

ReadInto(zero, b) ==
    IF b.kind = "json"
    THEN [LoginName |-> FieldOr(b.fields, "loginname", zero.LoginName),
          Password |-> FieldOr(b.fields, "password", zero.Password)]
    ELSE zero

\* a handler that went on after a failed c.Read
ReadNeverFails(e) == FALSE

\* if err := c.Read(&rd); err != nil { ... return err }
ReadFailed(e) == e # NoErr

(***************************************************************************)
(* The query: SELECT id, department, purview, logname FROM loguser         *)
(* WHERE logname = ? AND logpassword = ? ORDER BY id.                      *)
(***************************************************************************)
\* a query that refused empty credentials
WhereNonEmpty(rows, cred) ==
    {u \in rows : /\ u.logname = cred.LoginName
                  /\ u.logpassword = cred.Password
                  /\ cred.LoginName # ""
                  /\ cred.Password # ""}

\* Where(dbx.HashExp{"logname": rd.LoginName, "logpassword": rd.Password})
Where(rows, cred) ==
    {u \in rows : u.logname = cred.LoginName /\ u.logpassword = cred.Password}

\* ORDER BY id DESC
RECURSIVE OrderByDesc(_)
OrderByDesc(rows) ==
    IF rows = {} THEN <<>>
    ELSE LET last == CHOOSE u \in rows : \A v \in rows : v.id <= u.id
         IN <<last>> \o OrderByDesc(rows \ {last})

\* OrderBy("id")
RECURSIVE OrderBy(_)
OrderBy(rows) ==
    IF rows = {} THEN <<>>
    ELSE LET first == CHOOSE u \in rows : \A v \in rows : u.id <= v.id
         IN <<first>> \o OrderBy(rows \ {first})

\* a column list that put logpassword where logname goes
SelectPassword(ordered) ==
    [i \in 1..Len(ordered) |->
        [Id |-> ordered[i].id, Department |-> ordered[i].department,
         Purview |-> ordered[i].purview, Logname |-> ordered[i].logpassword]]

\* Select("id", "department", "purview", "logname") scanned into DB_Login
Select(ordered) == [i \in 1..Len(ordered) |-> DB_Login(ordered[i])]

\* q.All(&users) on a query whose execution and row scan succeeded
All(rows, cred) == Select(OrderBy(Where(rows, cred)))

\* a lookup that ran the query again after a failure
RoundTripsRetry(e) == IF e = NoErr THEN 1 ELSE 2

\* the round trips of the handler's single call of q.All
RoundTrips(e) == 1

\* a handler that went on after a failed q.All
QueryNeverFails(e) == FALSE

\* a handler that returned only the errors of the execution
QueryFailedInExecution(e) == e = ExecError

\* if err != nil { ... return err }
QueryFailed(e) == e # NoErr

(***************************************************************************)
(* Logging.                                                                *)
(***************************************************************************)
Errorf(msg) == [level |-> "error", msg |-> msg]

Info(msg) == [level |-> "info", msg |-> msg]

\* a callback that logged every query as successful
logDBQueryInfoOnly(e) == Info("DB query successful")

\* the QueryLogFunc installed on the database handle
logDBQuery(e) ==
    IF e = NoErr THEN Info("DB query successful")
    ELSE Errorf("DB query error: %v")

\* the error the database handle passes to its QueryLogFunc: the error of
\* the execution of the statement (a row that fails to scan is found after
\* the callback ran)
ExecutionErr(e) == IF e = ExecError THEN ExecError ELSE NoErr

(***************************************************************************)
(* json.Marshal of the two response structs, and c.Write(string(b)).       *)
(* The string values of the model hold no character that JSON escapes.     *)
(***************************************************************************)
Quote(str) == "\"" \o str \o "\""

MarshalResponse(rp) ==
    "{\"id\":" \o ToString(rp.Id)
        \o ",\"department\":" \o Quote(rp.Department)
        \o ",\"purview\":" \o Quote(rp.Purview)
        \o ",\"logname\":" \o Quote(rp.Logname) \o "}"

\* a json tag other than "error"
MarshalErrorAsMessage(rp) == "{\"message\":" \o Quote(rp.Error) \o "}"

MarshalError(rp) == "{\"error\":" \o Quote(rp.Error) \o "}"

\* users[0]
FirstUser(us) == us[1]

(***************************************************************************)
(* Initial states: the table holds any rows, the clients have sent any     *)
(* bodies, no request has reached the handler.                             *)
(***************************************************************************)
InitRequests(reqs, bodies) ==
    /\ body \in [reqs -> bodies]
    /\ pc = [r \in reqs |-> "idle"]
    /\ rd = [r \in reqs |-> requestData]
    /\ users = [r \in reqs |-> <<>>]
    /\ err = [r \in reqs |-> NoErr]
    /\ ret = [r \in reqs |-> None]
    /\ written = [r \in reqs |-> <<>>]
    /\ queries = [r \in reqs |-> 0]
    /\ log = [r \in reqs |-> <<>>]

\* one request, any table
Init ==
    /\ store \in Stores
    /\ InitRequests(1..1, Bodies)

\* NumReq requests in flight
InitConc ==
    /\ store \in ConcStores
    /\ InitRequests(1..NumReq, ConcBodies)

(***************************************************************************)
(* The router calls the handler registered for POST /v1/login.             *)
(***************************************************************************)
Serve(r) ==
    /\ pc[r] = "idle"
    /\ pc' = [pc EXCEPT ![r] = "read"]
    /\ UNCHANGED <<store, body, rd, users, err, ret, written, queries, log>>

(***************************************************************************)
(* rd := requestData{}; c.Read(&rd); on an error log it and return it.     *)
(***************************************************************************)
Read(r) ==
    /\ pc[r] = "read"
    /\ LET e == ReadErr(body[r])
       IN /\ rd' = [rd EXCEPT ![Slot(r)] = ReadInto(requestData, body[r])]
          /\ IF ReadFailed(e)
             THEN /\ log' = [log EXCEPT ![r] = Append(@, Errorf("invalid request: %v"))]
                  /\ ret' = [ret EXCEPT ![r] = e]
                  /\ pc' = [pc EXCEPT ![r] = "done"]
             ELSE /\ pc' = [pc EXCEPT ![r] = "query"]
                  /\ UNCHANGED <<log, ret>>
    /\ UNCHANGED <<store, body, users, err, written, queries>>

(***************************************************************************)
(* q := db.DB().Select(...).From(...).Where(...).OrderBy("id");            *)
(* err := q.All(&users); on an error log it and return it.  The database   *)
(* handle calls its QueryLogFunc once per executed statement.              *)
(***************************************************************************)
Query(r) ==
    /\ pc[r] = "query"
    /\ \E e \in {NoErr, ExecError, ScanError} :
         LET called == Append(log[r], logDBQuery(ExecutionErr(e)))
         IN /\ queries' = [queries EXCEPT ![r] = @ + RoundTrips(e)]
            /\ users' = [users EXCEPT ![Slot(r)] =
                            IF e = NoErr THEN All(store, rd[Slot(r)]) ELSE <<>>]
            /\ err' = [err EXCEPT ![Slot(r)] = e]
            /\ IF QueryFailed(e)
               THEN /\ log' = [log EXCEPT ![r] =
                                  Append(called, Errorf("database query error: %v"))]
                    /\ ret' = [ret EXCEPT ![r] = e]
                    /\ pc' = [pc EXCEPT ![r] = "done"]
               ELSE /\ log' = [log EXCEPT ![r] = called]
                    /\ pc' = [pc EXCEPT ![r] = "respond"]
                    /\ UNCHANGED ret
    /\ UNCHANGED <<store, body, rd, written>>

(***************************************************************************)
(* usersNum <= 0: log, marshal ErrorResponseData, write it.                *)
(* otherwise: marshal the responseData of users[0], write it.              *)
(* json.Marshal cannot fail on either struct, and the handler returns      *)
(* what c.Write returns.                                                   *)
(***************************************************************************)
Respond(r) ==
    /\ pc[r] = "respond"
    /\ LET usersNum == Len(users[Slot(r)])
       IN IF usersNum <= 0
          THEN /\ log' = [log EXCEPT ![r] =
                             Append(@, Errorf("database query error: %v"))]
               /\ written' = [written EXCEPT ![r] =
                                 Append(@, MarshalError(ErrorResponseData))]
          ELSE /\ written' = [written EXCEPT ![r] =
                                 Append(@, MarshalResponse(
                                     responseData(FirstUser(users[Slot(r)]))))]
               /\ UNCHANGED log
    /\ ret' = [ret EXCEPT ![r] = NoErr]
    /\ pc' = [pc EXCEPT ![r] = "done"]
    /\ UNCHANGED <<store, body, rd, users, err, queries>>

Next ==
    \E r \in Requests :
        \/ Serve(r)
        \/ Read(r)
        \/ Query(r)
        \/ Respond(r)

Spec == Init /\ [][Next]_vars

SpecConc == InitConc /\ [][Next]_vars

\* the handler is straight-line code (no loop, no wait but the query), so
\* a request that has a step left takes it
SpecLive == Init /\ [][Next]_vars /\ WF_vars(Next)

(***************************************************************************)
(* The documented contract, stated on the request as the client sent it    *)
(* and on the table, independently of the handler's own operators.         *)
(***************************************************************************)
IsJson(r) == body[r].kind = "json"

SentName(r) ==
    IF "loginname" \in DOMAIN body[r].fields THEN body[r].fields["loginname"] ELSE ""

SentPassword(r) ==
    IF "password" \in DOMAIN body[r].fields THEN body[r].fields["password"] ELSE ""

\* the stored rows with the same logname and the same logpassword
MatchingRows(r) ==
    {u \in store : u.logname = SentName(r) /\ u.logpassword = SentPassword(r)}

LowestId(rows) == CHOOSE u \in rows : \A v \in rows : u.id <= v.id

MismatchBody == "{\"error\":\"Loginname or password not correct.\"}"

\* {"id": int, "department": string, "purview": string, "logname": string}
SuccessBody(u) ==
    "{\"id\":" \o ToString(u.id) \o ",\"department\":\"" \o u.department
        \o "\",\"purview\":\"" \o u.purview
        \o "\",\"logname\":\"" \o u.logname \o "\"}"

Done(r) == pc[r] = "done"

\* the request passed decoding and its query returned no error
Answered(r) == Done(r) /\ IsJson(r) /\ err[r] = NoErr

ErrorEntries(entries) ==
    Cardinality({i \in 1..Len(entries) : entries[i].level = "error"})

EntriesWith(entries, msg) ==
    Cardinality({i \in 1..Len(entries) : entries[i] = Errorf(msg)})

\* C1: a request whose body decodes and whose query succeeds with no
\* matching row gets exactly the body
\* {"error":"Loginname or password not correct."} and the handler returns
\* no error, as it does for a successful login.
C1_MismatchBody ==
    \A r \in Requests :
        Answered(r) =>
            /\ ret[r] = NoErr
            /\ MatchingRows(r) = {} => written[r] = <<MismatchBody>>

C1_Witness ==
    \E r \in Requests :
        /\ Answered(r)
        /\ MatchingRows(r) = {}
        /\ store # {}
        /\ written[r] = <<MismatchBody>>

\* C2: a credential matching exactly one row gets the id, department,
\* purview and logname of that row under the keys id, department, purview,
\* logname and nothing else; the stored password is not in the body.
C2_SingleMatchProjection ==
    \A r \in Requests :
        Answered(r) /\ Cardinality(MatchingRows(r)) = 1 =>
            \E u \in MatchingRows(r) : written[r] = <<SuccessBody(u)>>

C2_Witness ==
    \E r \in Requests :
        /\ Answered(r)
        /\ Cardinality(MatchingRows(r)) = 1
        /\ Cardinality(store) > 1
        /\ \E u \in MatchingRows(r) :
              /\ u.logpassword # u.logname
              /\ written[r] = <<SuccessBody(u)>>

\* C3: a credential matching two or more rows gets the projection of the
\* matching row with the smallest id; the other matching rows have no
\* effect on the body.
C3_LowestIdWins ==
    \A r \in Requests :
        Answered(r) /\ Cardinality(MatchingRows(r)) >= 2 =>
            written[r] = <<SuccessBody(LowestId(MatchingRows(r)))>>

C3_Witness ==
    \E r \in Requests :
        /\ Answered(r)
        /\ \E u, v \in MatchingRows(r) :
              /\ u.id < v.id
              /\ u.department # v.department
              /\ written[r] = <<SuccessBody(u)>>

\* C4: when decoding the body fails, no database query is ever issued for
\* the request and no body is written; the decode error is returned before
\* the query step.
C4_DecodeFailureStopsHandler ==
    \A r \in Requests :
        ~IsJson(r) =>
            /\ queries[r] = 0
            /\ written[r] = <<>>
            /\ pc[r] \in {"idle", "read", "done"}
            /\ Done(r) => ret[r] = DecodeError

C4_Witness ==
    \E r \in Requests :
        ~IsJson(r) /\ Done(r) /\ ret[r] = DecodeError /\ queries[r] = 0

\* C5: when the database query returns an error, neither a success body nor
\* the mismatch body is written; the handler only returns that error.
C5_QueryErrorWritesNothing ==
    \A r \in Requests :
        err[r] # NoErr =>
            /\ written[r] = <<>>
            /\ Done(r)
            /\ ret[r] = err[r]

C5_Witness ==
    \E r \in Requests :
        /\ err[r] = ExecError
        /\ MatchingRows(r) # {}
        /\ Done(r)
        /\ written[r] = <<>>

\* C6: each request that passes decoding performs exactly one database
\* query: never zero, and never more than one, also when the query fails
\* or returns no rows.
C6_ExactlyOneQuery ==
    \A r \in Requests :
        /\ queries[r] <= 1
        /\ pc[r] \in {"respond", "done"} /\ IsJson(r) => queries[r] = 1

C6_Witness ==
    \E r \in Requests :
        Done(r) /\ err[r] # NoErr /\ queries[r] = 1

\* C7 as stated: every technical error of a request (decode error, query
\* error) makes exactly one error log entry for that request, counting the
\* handler's entries and those of the query-log callback.
C7_Original ==
    \A r \in Requests :
        Done(r) /\ ret[r] \in {DecodeError, ExecError, ScanError} =>
            ErrorEntries(log[r]) = 1

\* C7 amended: the handler logs every technical error once, where it
\* detects it, and returns it; a query whose execution fails is also logged
\* at error level by the query-log callback, so it makes two error entries
\* for the request, and a query that fails after its execution makes one.
C7_LoggedOnceByHandler ==
    \A r \in Requests :
        Done(r) =>
            /\ ret[r] = DecodeError =>
                  /\ EntriesWith(log[r], "invalid request: %v") = 1
                  /\ ErrorEntries(log[r]) = 1
            /\ ret[r] = ScanError =>
                  /\ EntriesWith(log[r], "database query error: %v") = 1
                  /\ ErrorEntries(log[r]) = 1
            /\ ret[r] = ExecError =>
                  /\ EntriesWith(log[r], "database query error: %v") = 1
                  /\ EntriesWith(log[r], "DB query error: %v") = 1
                  /\ ErrorEntries(log[r]) = 2

C7_Witness ==
    \E r \in Requests :
        Done(r) /\ ret[r] = ExecError /\ ErrorEntries(log[r]) = 2

\* C8: a credential mismatch (successful query, zero rows) is a normal
\* outcome: the handler returns no error and makes no error-level log
\* entry for it.
C8_MismatchIsNotLoggedAsError ==
    \A r \in Requests :
        Answered(r) /\ MatchingRows(r) = {} =>
            /\ ret[r] = NoErr
            /\ ErrorEntries(log[r]) = 0

\* C9 as stated: a credential whose login name or password is the empty
\* string never matches a stored row, whatever the table holds: the body is
\* always the mismatch body.
C9_Original ==
    \A r \in Requests :
        Answered(r) /\ (SentName(r) = "" \/ SentPassword(r) = "") =>
            written[r] = <<MismatchBody>>

\* C9 amended: a credential whose login name or password is the empty
\* string (also one from a body that omits the field) is accepted by the
\* decoder and compared like any other value: the body is the mismatch body
\* exactly when no stored row has that logname and that logpassword, and
\* the projection of the lowest such row otherwise.
C9_EmptyComparedLikeAnyValue ==
    \A r \in Requests :
        IsJson(r) /\ (SentName(r) = "" \/ SentPassword(r) = "") =>
            /\ ret[r] # DecodeError
            /\ Answered(r) =>
                  written[r] = IF MatchingRows(r) = {}
                               THEN <<MismatchBody>>
                               ELSE <<SuccessBody(LowestId(MatchingRows(r)))>>

C9_Witness ==
    \E r \in Requests :
        /\ Answered(r)
        /\ "password" \notin DOMAIN body[r].fields
        /\ MatchingRows(r) # {}
        /\ written[r] = <<SuccessBody(LowestId(MatchingRows(r)))>>

\* C10: with requests handled concurrently on an unchanging table, under
\* every interleaving of their steps the outcome of each request is the one
\* it would get alone: it depends only on its own body, the table and
\* whether its own query failed.
C10_OutcomeAsIfAlone ==
    \A r \in Requests :
        Done(r) =>
            \/ ~IsJson(r) /\ ret[r] = DecodeError /\ written[r] = <<>>
            \/ /\ IsJson(r)
               /\ ret[r] \in {ExecError, ScanError}
               /\ written[r] = <<>>
            \/ /\ IsJson(r)
               /\ ret[r] = NoErr
               /\ written[r] = IF MatchingRows(r) = {}
                               THEN <<MismatchBody>>
                               ELSE <<SuccessBody(LowestId(MatchingRows(r)))>>

C10_Witness ==
    \E r, q \in Requests :
        /\ r # q
        /\ Done(r) /\ Done(q)
        /\ IsJson(r) /\ IsJson(q)
        /\ written[r] = <<MismatchBody>>
        /\ MatchingRows(q) # {}
        /\ written[q] = <<SuccessBody(LowestId(MatchingRows(q)))>>

(***************************************************************************)
(* The terminal outcomes of a request.                                     *)
(***************************************************************************)
DecodeFailureReturned(r) ==
    /\ ret[r] = DecodeError
    /\ written[r] = <<>>
    /\ queries[r] = 0

QueryFailureReturned(r) ==
    /\ ret[r] \in {ExecError, ScanError}
    /\ err[r] = ret[r]
    /\ written[r] = <<>>

ResponseWritten(r) ==
    /\ ret[r] = NoErr
    /\ err[r] = NoErr
    /\ Len(written[r]) = 1
    /\ written[r][1] \in {MismatchBody} \cup {SuccessBody(u) : u \in store}

OutcomesOf(r) ==
    {o \in {"decode failure", "query failure", "response"} :
        \/ o = "decode failure" /\ DecodeFailureReturned(r)
        \/ o = "query failure" /\ QueryFailureReturned(r)
        \/ o = "response" /\ ResponseWritten(r)}

C11_OneOutcome ==
    \A r \in Requests :
        /\ Len(written[r]) <= 1
        /\ Done(r) => Cardinality(OutcomesOf(r)) = 1
        /\ ~Done(r) => ret[r] = None /\ written[r] = <<>>

\* C11: every login request terminates, in exactly one of three outcomes
\* (decode failure returned, query failure returned, a success or mismatch
\* body written); at most one body is written per request and the handler
\* finishes in no other way.
C11_TerminatesInOneOutcome ==
    /\ []C11_OneOutcome
    /\ <>[](\A r \in Requests : Done(r))

C11_Witness ==
    \E r \in Requests :
        /\ Done(r)
        /\ OutcomesOf(r) = {"query failure"}
        /\ MatchingRows(r) # {}

====
